---- MODULE Spec2Model ----
(***************************************************************************)
(* A model of the Reaper facade of reaper-rs (high/src/reaper.rs): the     *)
(* Sleeping/Awake session, the action registry with its host callbacks,    *)
(* the bounded task channel into the real-time audio thread, the           *)
(* reference-counted ReaperGuard and the undo-block flag.                  *)
(*                                                                         *)
(* The host (REAPER, reached through reaper-medium) is the environment:    *)
(* it holds the registrations the facade makes, it may refuse any          *)
(* registration call, and it calls back into the facade through the hooks  *)
(* that are registered with it.                                            *)
(***************************************************************************)
EXTENDS Integers, Sequences, FiniteSets, TLC

\* ------------------------------------------------------------------------
\* Bounds of the model
\* ------------------------------------------------------------------------
\* Number of distinct command ids (action names) the extension registers.
MaxCommands == 2
\* Number of accelerator handles the host can hand out at the same time.
MaxHandles == 2
\* Number of tasks producers create in one behaviour.
MaxTasks == 4
\* src/main/high/src/reaper.rs:42 sets the capacity of the channel to 500;
\* the model keeps the bounded channel and scales its capacity down.
ChannelCapacity == 2
\* Number of guard tokens (activation cycles) created in one behaviour.
MaxCycles == 3
\* Number of strong references to one guard token.
MaxStrong == 3
\* Number of undo-block enter/leave calls in one behaviour.
MaxUndoCalls == 4
\* Number of facade calls an operation makes during one dispatch.
MaxNestedCalls == 2

\* reaper.rs:45
AUDIO_THREAD_TASK_BULK_SIZE == 1

CommandIds == 1..MaxCommands
Handles == 1..MaxHandles
Tasks == 1..MaxTasks
Tokens == 1..MaxCycles

\* The host's main thread, and one more thread of the extension.  The
\* real-time audio thread only ever runs HighOnAudioBuffer::call.
MainThread == "main"
Threads == {"main", "worker"}
RealTimeThread == "real-time"

Projects == {"P1", "P2"}

\* ------------------------------------------------------------------------
\* Values
\* ------------------------------------------------------------------------
EmptyMap == [x \in {} |-> 0]

Range(f) == {f[x] : x \in DOMAIN f}

Min(a, b) == IF a <= b THEN a ELSE b

RECURSIVE SortedSeq(_)
SortedSeq(S) ==
    IF S = {} THEN <<>>
    ELSE LET m == CHOOSE x \in S : \A y \in S : x <= y
         IN <<m>> \o SortedSeq(S \ {m})

\* ActionKind (reaper.rs:223): NotToggleable, or Toggleable with a predicate.
NotToggleable == [toggleable |-> FALSE, is_on |-> "none"]
Toggleable(p) == [toggleable |-> TRUE, is_on |-> p]

\* The toggle predicates an extension passes to register_action.  A predicate
\* is a closure over extension state; predicate_state is what it returns now.
Predicates == {"is_on_1"}

\* Command::new (reaper.rs:568)
Command(operation, kind, description) ==
    [operation |-> operation, kind |-> kind, description |-> description]

\* The (operation, kind, description) arguments of register_action calls.
Requests ==
    { Command("op1", NotToggleable, "d1"),
      Command("op2", Toggleable("is_on_1"), "d2") }

\* SessionStatus (reaper.rs:200): Sleeping(Option<SleepingState>) or
\* Awake(AwakeState).  audio_hook is TRUE when the Sleeping variant holds
\* Some(SleepingState), i.e. the parked adapter.
Sleeping(some) ==
    [kind |-> "Sleeping", audio_hook |-> some, gaccel_registers |-> EmptyMap]
Awake(gaccel_registers) ==
    [kind |-> "Awake", audio_hook |-> FALSE, gaccel_registers |-> gaccel_registers]

\* One call made during an operation: a call into the host, or the
\* invocation of a closure the extension supplied.
Call(name, id) == [call |-> name, id |-> id]

\* 0 for the result Ok(()), 1 for an Err.
ResultCode(result) == IF result = "Ok" THEN 0 ELSE 1

\* What the last operation was, the thread that called it and what it
\* returned.
ReturnedOn(t, op, id, arg, result, calls) ==
    [thread |-> t, op |-> op, id |-> id, arg |-> arg, result |-> result, calls |-> calls]

VARIABLES
    \* Reaper (reaper.rs:176)
    session_status,          \* RefCell<SessionStatus>
    command_by_id,           \* RefCell<HashMap<CommandId, Command>>
    undo_block_is_active,    \* Cell<bool>
    queue,                   \* the channel between audio_thread_task_sender and task_receiver
    \* statics
    REAPER_GUARD,            \* Mutex<Weak<ReaperGuard>>: the token the weak reference points to, 0 for Weak::new()
    strong_count,            \* number of Arc<ReaperGuard> alive for that token
    GUARD_INITIALIZER,       \* std::sync::Once: TRUE once it has completed
    \* the host
    host_hooks,              \* the callback hooks registered with the host
    host_gaccels,            \* live accelerator entries: handle -> command id
    host_audio_hook,         \* TRUE while the host holds the adapter as its audio hook
    host_undo,               \* the undo begin/end calls the host has seen
    \* the extension
    registered_actions,      \* command ids for which a RegisteredAction was returned
    first_registration,      \* per id in use, the arguments of the first register_action since it was last unregistered
    predicate_state,         \* what each toggle predicate returns now
    next_task,               \* id of the next task a producer creates
    executed,                \* tasks the audio callback has run, in order
    discarded,               \* tasks wake_up has discarded
    queued_asleep,           \* tasks that were in the queue when a go_to_sleep completed
    host_refused,            \* the host has refused a call of wake_up or go_to_sleep
    initializer_runs,        \* how often a guarded() initializer ran
    wake_fn_runs,            \* how often the wake-up function of guarded() ran, per token
    teardown_runs,           \* how often the go_to_sleep closure of a token ran
    undo_trace,              \* the enter/leave calls made so far
    \* threads
    thread_pc,               \* where each thread is: "idle", "wake_up", "send"
    frame,                   \* locals of the running wake_up
    send_task,               \* the task each thread is blocked sending, 0 for none
    last_call,               \* the last operation and its result
    panicked                 \* a panic has unwound an operation

sessionVars == <<session_status, host_hooks, host_gaccels, host_audio_hook>>
registryVars == <<command_by_id, registered_actions, first_registration, predicate_state>>
channelVars == <<queue, next_task, executed, discarded, queued_asleep, send_task>>
guardVars == <<REAPER_GUARD, strong_count, GUARD_INITIALIZER, initializer_runs,
               wake_fn_runs, teardown_runs>>
undoVars == <<undo_block_is_active, host_undo, undo_trace>>

vars == <<session_status, command_by_id, undo_block_is_active, queue,
          REAPER_GUARD, strong_count, GUARD_INITIALIZER,
          host_hooks, host_gaccels, host_audio_hook, host_undo,
          registered_actions, first_registration, predicate_state, next_task, executed, discarded,
          queued_asleep, host_refused,
          initializer_runs, wake_fn_runs, teardown_runs, undo_trace,
          thread_pc, frame, send_task, last_call, panicked>>

\* caller: the operation that runs wake_up; task_count: the count of
\* discard_tasks; calls: what the caller did before wake_up; queued and
\* drained: the tasks in the queue when wake_up started, and those it took out.
\* For a running dispatch, command is the id that is dispatched, calls is
\* what the dispatch did so far, and registry_borrowed tells whether the
\* dispatch holds a borrow of command_by_id.
Frame(caller, calls) ==
    [caller |-> caller, task_count |-> 0, calls |-> calls,
     queued |-> Range(queue), drained |-> {},
     command |-> 0, registry_borrowed |-> FALSE]
NoFrame ==
    [caller |-> "none", task_count |-> 0, calls |-> <<>>, queued |-> {}, drained |-> {},
     command |-> 0, registry_borrowed |-> FALSE]

\* ReaperBuilder::setup (reaper.rs:86-129): the state after construction.
Init ==
    /\ session_status = Sleeping(TRUE)
    /\ command_by_id = EmptyMap
    /\ undo_block_is_active = FALSE
    /\ queue = <<>>
    /\ REAPER_GUARD = 0
    /\ strong_count = 0
    /\ GUARD_INITIALIZER = FALSE
    /\ host_hooks = {}
    /\ host_gaccels = EmptyMap
    /\ host_audio_hook = FALSE
    /\ host_undo = <<>>
    /\ registered_actions = {}
    /\ first_registration = EmptyMap
    /\ predicate_state = [p \in Predicates |-> FALSE]
    /\ next_task = 1
    /\ executed = <<>>
    /\ discarded = {}
    /\ queued_asleep = {}
    /\ host_refused = FALSE
    /\ initializer_runs = 0
    /\ wake_fn_runs = [k \in Tokens |-> 0]
    /\ teardown_runs = [k \in Tokens |-> 0]
    /\ undo_trace = <<>>
    /\ thread_pc = [t \in Threads |-> "idle"]
    /\ frame = NoFrame
    /\ send_task = [t \in Threads |-> 0]
    /\ last_call = ReturnedOn(MainThread, "setup", 0, 0, "Ok", <<>>)
    /\ panicked = FALSE

\* ------------------------------------------------------------------------
\* Thread affinity and panics
\* ------------------------------------------------------------------------
\* require_main_thread (reaper.rs:663-668): the assertion holds on the main
\* thread only.
IsInMainThread(t) == t = MainThread

\* The assertion of require_main_thread fails on thread t: the panic unwinds
\* the operation; op(id) returns nothing.
Panic(t, op, id) ==
    /\ panicked' = TRUE
    /\ last_call' = ReturnedOn(t, op, id, 0, "panic", <<>>)

\* An operation that ran on the main thread.
Returned(op, id, arg, result, calls) ==
    ReturnedOn(MainThread, op, id, arg, result, calls)

\* ------------------------------------------------------------------------
\* The adapter (HighOnAudioBuffer) and the channel
\* ------------------------------------------------------------------------
\* The adapter owns the channel's only Receiver.  It is parked in the
\* Sleeping state, held in wake_up's local sleeping_state, or owned by the
\* host as its audio hook; when it is in none of these it has been dropped
\* and the channel is disconnected.
AdapterParked == session_status.kind = "Sleeping" /\ session_status.audio_hook
AdapterInWakeUp == thread_pc[MainThread] = "wake_up"
AdapterPlaces ==
    (IF AdapterParked THEN 1 ELSE 0) + (IF AdapterInWakeUp THEN 1 ELSE 0)
        + (IF host_audio_hook THEN 1 ELSE 0)
Connected == AdapterPlaces > 0

\* ------------------------------------------------------------------------
\* The answers of the host
\* ------------------------------------------------------------------------
\* What the host answers to the registrations of one wake_up: whether it
\* accepts each hook, the command ids whose accelerator entry it accepts
\* before it refuses one (the HashMap's iteration order decides which ids
\* come before the refused one), whether it accepts the audio hook.
\* An answer to a call that wake_up never gets to make is left out: after the
\* first refusal that ends wake_up, every other answer is "accepted".
HostAnswers ==
    {h \in [hook_command : BOOLEAN, toggle_action : BOOLEAN,
            hook_post_command_2 : BOOLEAN, gaccel : SUBSET CommandIds,
            audio_hook : BOOLEAN] :
        /\ ~h.hook_command =>
              h.toggle_action /\ h.hook_post_command_2 /\ h.gaccel = CommandIds /\ h.audio_hook
        /\ ~h.toggle_action =>
              h.hook_post_command_2 /\ h.gaccel = CommandIds /\ h.audio_hook
        /\ h.gaccel # CommandIds => h.audio_hook}

\* The handles the host can hand out next, lowest first.  A handle that the
\* host still holds, or that the Awake state still refers to, is not handed
\* out again.
FreeHandles ==
    SortedSeq(Handles \ (DOMAIN host_gaccels \cup Range(session_status.gaccel_registers)))

\* ------------------------------------------------------------------------
\* wake_up (reaper.rs:319-367)
\* ------------------------------------------------------------------------
\* reaper.rs:322-330: the match on the session status and on the taken
\* Option<SleepingState>.
WakeUpEntryAwakeUnchecked ==
    IF session_status.kind = "Sleeping" /\ ~session_status.audio_hook
    THEN "Previous wake-up left session in invalid state"
    ELSE "proceed"

WakeUpEntry ==
    IF session_status.kind = "Awake" THEN "Session is already awake"
    ELSE IF ~session_status.audio_hook
         THEN "Previous wake-up left session in invalid state"
         ELSE "proceed"

\* reaper.rs:325: state.take() leaves None in the Sleeping variant.
TakeSleepingState == Sleeping(FALSE)

\* reaper.rs:334-364: the registrations, in the order of the code, under the
\* host's answers h.  The entries the host accepts get the free handles in
\* the order of their ids (a handle is opaque: which one an entry gets makes
\* no difference).
WakeUpRegistrationNeedsPostCommand(h) ==
    LET ids == DOMAIN command_by_id
        free == FreeHandles
        wanted == SortedSeq(ids \cap h.gaccel)
        m == Min(Len(wanted), Len(free))
        all == m = Cardinality(ids)
        regs == [c \in {wanted[i] : i \in 1..m} |->
                    free[CHOOSE i \in 1..m : wanted[i] = c]]
        added == [x \in {free[i] : i \in 1..m} |->
                    wanted[CHOOSE i \in 1..m : free[i] = x]]
        refused == IF all THEN <<>>
                   ELSE <<Call("add_gaccel", CHOOSE c \in ids : c \notin DOMAIN regs)>>
        warn == IF frame.task_count > 0
                THEN <<Call("warn_discarded", frame.task_count)>>
                ELSE <<>>
        hookCalls == <<Call("add_hook_command", 0), Call("add_toggle_action", 0),
                       Call("add_hook_post_command_2", 0)>>
        gaccelCalls == [i \in 1..m |-> Call("add_gaccel", wanted[i])] \o refused
        audioCall == <<Call("audio_reg_hardware_hook_add", 0)>>
        hooks == host_hooks \cup {"hook_command", "toggle_action"}
                    \cup (IF h.hook_post_command_2 THEN {"hook_post_command_2"} ELSE {})
    IN  IF ~h.hook_command
        THEN [status |-> session_status, hooks |-> host_hooks,
              gaccels |-> host_gaccels, audio |-> FALSE, panic |-> FALSE,
              result |-> "couldn't register hook command",
              calls |-> warn \o SubSeq(hookCalls, 1, 1)]
        ELSE IF ~h.toggle_action
        THEN [status |-> session_status, hooks |-> host_hooks \cup {"hook_command"},
              gaccels |-> host_gaccels, audio |-> FALSE, panic |-> FALSE,
              result |-> "couldn't register toggle command",
              calls |-> warn \o SubSeq(hookCalls, 1, 2)]
        ELSE IF ~h.hook_post_command_2
        THEN [status |-> session_status, hooks |-> host_hooks \cup {"hook_command", "toggle_action"},
              gaccels |-> host_gaccels, audio |-> FALSE, panic |-> FALSE,
              result |-> "couldn't register hook post command",
              calls |-> warn \o hookCalls]
        ELSE IF ~all
        THEN \* add_gaccel(..).unwrap() panics
             [status |-> session_status, hooks |-> hooks,
              gaccels |-> added @@ host_gaccels, audio |-> FALSE, panic |-> TRUE,
              result |-> "panic",
              calls |-> warn \o hookCalls \o gaccelCalls]
        ELSE IF ~h.audio_hook
        THEN [status |-> session_status, hooks |-> hooks,
              gaccels |-> added @@ host_gaccels, audio |-> FALSE, panic |-> FALSE,
              result |-> "Audio hook registration failed",
              calls |-> warn \o hookCalls \o gaccelCalls \o audioCall]
        ELSE [status |-> Awake(regs), hooks |-> hooks,
              gaccels |-> added @@ host_gaccels, audio |-> TRUE, panic |-> FALSE,
              result |-> "Ok",
              calls |-> warn \o hookCalls \o gaccelCalls \o audioCall]

WakeUpRegistration(h) ==
    LET ids == DOMAIN command_by_id
        free == FreeHandles
        wanted == SortedSeq(ids \cap h.gaccel)
        m == Min(Len(wanted), Len(free))
        all == m = Cardinality(ids)
        regs == [c \in {wanted[i] : i \in 1..m} |->
                    free[CHOOSE i \in 1..m : wanted[i] = c]]
        added == [x \in {free[i] : i \in 1..m} |->
                    wanted[CHOOSE i \in 1..m : free[i] = x]]
        refused == IF all THEN <<>>
                   ELSE <<Call("add_gaccel", CHOOSE c \in ids : c \notin DOMAIN regs)>>
        warn == IF frame.task_count > 0
                THEN <<Call("warn_discarded", frame.task_count)>>
                ELSE <<>>
        hookCalls == <<Call("add_hook_command", 0), Call("add_toggle_action", 0),
                       Call("add_hook_post_command_2", 0)>>
        gaccelCalls == [i \in 1..m |-> Call("add_gaccel", wanted[i])] \o refused
        audioCall == <<Call("audio_reg_hardware_hook_add", 0)>>
        hooks == host_hooks \cup {"hook_command", "toggle_action"}
                    \cup (IF h.hook_post_command_2 THEN {"hook_post_command_2"} ELSE {})
    IN  IF ~h.hook_command
        THEN [status |-> session_status, hooks |-> host_hooks,
              gaccels |-> host_gaccels, audio |-> FALSE, panic |-> FALSE,
              result |-> "couldn't register hook command",
              calls |-> warn \o SubSeq(hookCalls, 1, 1)]
        ELSE IF ~h.toggle_action
        THEN [status |-> session_status, hooks |-> host_hooks \cup {"hook_command"},
              gaccels |-> host_gaccels, audio |-> FALSE, panic |-> FALSE,
              result |-> "couldn't register toggle command",
              calls |-> warn \o SubSeq(hookCalls, 1, 2)]
        ELSE IF ~all
        THEN \* add_gaccel(..).unwrap() panics
             [status |-> session_status, hooks |-> hooks,
              gaccels |-> added @@ host_gaccels, audio |-> FALSE, panic |-> TRUE,
              result |-> "panic",
              calls |-> warn \o hookCalls \o gaccelCalls]
        ELSE IF ~h.audio_hook
        THEN [status |-> session_status, hooks |-> hooks,
              gaccels |-> added @@ host_gaccels, audio |-> FALSE, panic |-> FALSE,
              result |-> "Audio hook registration failed",
              calls |-> warn \o hookCalls \o gaccelCalls \o audioCall]
        ELSE [status |-> Awake(regs), hooks |-> hooks,
              gaccels |-> added @@ host_gaccels, audio |-> TRUE, panic |-> FALSE,
              result |-> "Ok",
              calls |-> warn \o hookCalls \o gaccelCalls \o audioCall]

\* ------------------------------------------------------------------------
\* go_to_sleep (reaper.rs:369-393)
\* ------------------------------------------------------------------------
\* removed: whether the host finds and removes the audio hook.  The
\* accelerator handles are removed lowest first (the HashMap's order of
\* values() is not specified; no two removals depend on each other).
GoToSleepHooksFirst(removed) ==
    LET handles == SortedSeq(Range(session_status.gaccel_registers))
        audioCall == <<Call("audio_reg_hardware_hook_remove", 0)>>
        gaccelCalls == [i \in 1..Len(handles) |-> Call("remove_gaccel", handles[i])]
        hookCalls == <<Call("remove_hook_post_command_2", 0),
                       Call("remove_toggle_action", 0),
                       Call("remove_hook_command", 0)>>
    IN  IF session_status.kind = "Sleeping"
        THEN [status |-> session_status, hooks |-> host_hooks,
              gaccels |-> host_gaccels, audio |-> host_audio_hook,
              result |-> "Session is already sleeping", calls |-> <<>>]
        ELSE IF ~removed
        THEN [status |-> session_status,
              hooks |-> host_hooks \ {"hook_post_command_2", "toggle_action", "hook_command"},
              gaccels |-> host_gaccels, audio |-> host_audio_hook,
              result |-> "audio hook was not registered", calls |-> hookCalls \o audioCall]
        ELSE [status |-> Sleeping(TRUE),
              hooks |-> host_hooks \ {"hook_post_command_2", "toggle_action", "hook_command"},
              gaccels |-> [x \in DOMAIN host_gaccels \ Range(session_status.gaccel_registers)
                              |-> host_gaccels[x]],
              audio |-> FALSE,
              result |-> "Ok", calls |-> hookCalls \o audioCall \o gaccelCalls]

GoToSleep(removed) ==
    LET handles == SortedSeq(Range(session_status.gaccel_registers))
        audioCall == <<Call("audio_reg_hardware_hook_remove", 0)>>
        gaccelCalls == [i \in 1..Len(handles) |-> Call("remove_gaccel", handles[i])]
        hookCalls == <<Call("remove_hook_post_command_2", 0),
                       Call("remove_toggle_action", 0),
                       Call("remove_hook_command", 0)>>
    IN  IF session_status.kind = "Sleeping"
        THEN [status |-> session_status, hooks |-> host_hooks,
              gaccels |-> host_gaccels, audio |-> host_audio_hook,
              result |-> "Session is already sleeping", calls |-> <<>>]
        ELSE IF ~removed
        THEN [status |-> session_status, hooks |-> host_hooks,
              gaccels |-> host_gaccels, audio |-> host_audio_hook,
              result |-> "audio hook was not registered", calls |-> audioCall]
        ELSE [status |-> Sleeping(TRUE),
              hooks |-> host_hooks \ {"hook_post_command_2", "toggle_action", "hook_command"},
              gaccels |-> [x \in DOMAIN host_gaccels \ Range(session_status.gaccel_registers)
                              |-> host_gaccels[x]],
              audio |-> FALSE,
              result |-> "Ok", calls |-> audioCall \o gaccelCalls \o hookCalls]

\* ------------------------------------------------------------------------
\* The guard token (reaper.rs:232-278)
\* ------------------------------------------------------------------------
\* reaper.rs:262: guard.upgrade() succeeds while a strong reference is alive.
Upgrade == strong_count > 0

\* reaper.rs:267: GUARD_INITIALIZER.call_once runs its closure the first time.
CallOnceEveryTime == TRUE

CallOnce == ~GUARD_INITIALIZER

\* reaper.rs:261: REAPER_GUARD is locked for the whole of guarded().
GuardLocked == thread_pc[MainThread] = "wake_up" /\ frame.caller = "guarded"

\* reaper.rs:272-277: the wake-up function runs, its result goes into a new
\* token, and REAPER_GUARD is pointed at it.  calls: what guarded() did so far.
GuardedActivate(calls) ==
    LET k == REAPER_GUARD + 1
    IN  /\ wake_fn_runs' = [wake_fn_runs EXCEPT ![k] = @ + 1]
        /\ REAPER_GUARD' = k
        /\ strong_count' = 1
        /\ last_call' = Returned("guarded", k, 0, "activated",
                                 calls \o <<Call("wake_up_fn", k)>>)

\* ------------------------------------------------------------------------
\* Session operations
\* ------------------------------------------------------------------------
wake_up(t) ==
    /\ ~panicked
    /\ thread_pc[t] = "idle"
    /\ IF ~IsInMainThread(t)
       THEN /\ Panic(t, "wake_up", 0)
            /\ UNCHANGED <<sessionVars, thread_pc, frame>>
       ELSE IF WakeUpEntry = "proceed"
       THEN /\ session_status' = TakeSleepingState
            /\ thread_pc' = [thread_pc EXCEPT ![t] = "wake_up"]
            /\ frame' = Frame("wake_up", <<>>)
            /\ last_call' = Returned("wake_up", 0, 0, "running", <<>>)
            /\ UNCHANGED <<host_hooks, host_gaccels, host_audio_hook, panicked>>
       ELSE /\ last_call' = Returned("wake_up", 0, 0, WakeUpEntry, <<>>)
            /\ UNCHANGED <<sessionVars, thread_pc, frame, panicked>>
    /\ UNCHANGED <<registryVars, channelVars, guardVars, undoVars, host_refused>>

\* The rest of a wake_up whose drain of the queue has found it empty.
wake_up_register(h) ==
    /\ ~panicked
    /\ thread_pc[MainThread] = "wake_up"
    /\ queue = <<>>
    /\ LET o == WakeUpRegistration(h)
       IN  /\ session_status' = o.status
           /\ host_hooks' = o.hooks
           /\ host_gaccels' = o.gaccels
           /\ host_audio_hook' = o.audio
           /\ panicked' = o.panic
           /\ host_refused' = (host_refused \/ o.result # "Ok")
           /\ IF frame.caller = "guarded" /\ ~o.panic
              THEN /\ GuardedActivate(frame.calls \o <<Call("wake_up", ResultCode(o.result))>>
                                         \o o.calls)
                   /\ UNCHANGED <<GUARD_INITIALIZER, initializer_runs, teardown_runs>>
              ELSE /\ last_call' = Returned(frame.caller, 0,
                                            [queued |-> frame.queued, drained |-> frame.drained],
                                            o.result, frame.calls \o o.calls)
                   /\ UNCHANGED guardVars
    /\ thread_pc' = [thread_pc EXCEPT ![MainThread] = "idle"]
    /\ frame' = NoFrame
    /\ UNCHANGED <<registryVars, channelVars, undoVars>>

go_to_sleep(t, removed) ==
    /\ ~panicked
    /\ thread_pc[t] = "idle"
    /\ IF ~IsInMainThread(t)
       THEN /\ Panic(t, "go_to_sleep", 0)
            /\ UNCHANGED <<sessionVars, queued_asleep, host_refused>>
       ELSE LET o == GoToSleep(removed)
            IN  /\ session_status' = o.status
                /\ host_hooks' = o.hooks
                /\ host_gaccels' = o.gaccels
                /\ host_audio_hook' = o.audio
                /\ queued_asleep' = IF o.result = "Ok" THEN queued_asleep \cup Range(queue)
                                    ELSE queued_asleep
                /\ host_refused' = (host_refused \/ o.result = "audio hook was not registered")
                /\ last_call' = Returned("go_to_sleep", 0, 0, o.result, o.calls)
                /\ UNCHANGED panicked
    /\ UNCHANGED <<registryVars, queue, next_task, executed, discarded, send_task,
                   guardVars, undoVars, thread_pc, frame>>

\* ------------------------------------------------------------------------
\* The action registry (reaper.rs:410-462)
\* ------------------------------------------------------------------------
\* reaper.rs:605-608: the Ref that command_by_id.borrow() returns is a
\* temporary of the let statement that clones the operation; it is dropped at
\* the end of that statement, so the dispatch holds no borrow of the registry
\* while the operation runs.
RegistryBorrowHeldDuringOperation == TRUE

RegistryBorrowedByDispatch == FALSE

\* Thread t is inside an operation that a dispatch has invoked.
InOperation(t) == thread_pc[t] = "dispatch"

\* reaper.rs:426 and reaper.rs:451: command_by_id.borrow_mut() panics while
\* another borrow of the RefCell is alive.
BorrowMutPanics(t) == InOperation(t) /\ frame.registry_borrowed

\* The locals of the running dispatch after the operation has called
\* name(c).
NestedCall(t, name, c) ==
    IF InOperation(t) THEN [frame EXCEPT !.calls = Append(@, Call(name, c))] ELSE frame

\* reaper.rs:426-428: insert only into a vacant entry.
InsertOverwriting(map, c, command) == (c :> command) @@ map

InsertIfVacant(map, c, command) ==
    IF c \in DOMAIN map THEN map ELSE (c :> command) @@ map

\* reaper.rs:451
RemoveCommandKeepsEntry(map, c) == map

RemoveCommand(map, c) == [x \in DOMAIN map \ {c} |-> map[x]]

\* reaper.rs:458-461: the handle unregister_action asks the host to remove,
\* 0 for none.
HandleToRemove(c) ==
    IF session_status.kind = "Awake" /\ c \in DOMAIN session_status.gaccel_registers
    THEN session_status.gaccel_registers[c]
    ELSE 0

\* reaper.rs:442: the map of the Awake state after register_action.
RecordHandle(regs, c, handle) == (c :> handle) @@ regs

\* accepted: whether the host accepts the accelerator entry.
register_action(t, c, r, accepted) ==
    /\ ~panicked
    /\ thread_pc[t] \in {"idle", "dispatch"}
    /\ InOperation(t) => Len(frame.calls) <= MaxNestedCalls
    /\ frame' = NestedCall(t, "register_action", c)
    /\ IF ~IsInMainThread(t)
       THEN /\ Panic(t, "register_action", c)
            /\ UNCHANGED <<sessionVars, command_by_id, registered_actions, first_registration>>
       ELSE IF BorrowMutPanics(t)
       THEN /\ panicked' = TRUE
            /\ last_call' = Returned("register_action", c, r, "panic", <<>>)
            /\ UNCHANGED <<sessionVars, command_by_id, registered_actions, first_registration>>
       ELSE /\ command_by_id' = InsertIfVacant(command_by_id, c, r)
            /\ IF session_status.kind = "Sleeping"
               THEN /\ last_call' = Returned("register_action", c, r, "RegisteredAction", <<>>)
                    /\ registered_actions' = registered_actions \cup {c}
                    /\ first_registration' =
                          IF c \in DOMAIN first_registration THEN first_registration
                          ELSE (c :> r) @@ first_registration
                    /\ UNCHANGED <<sessionVars, panicked>>
               ELSE IF ~accepted \/ FreeHandles = <<>>
               THEN \* add_gaccel(..).unwrap() panics
                    /\ panicked' = TRUE
                    /\ last_call' = Returned("register_action", c, r, "panic",
                                             <<Call("add_gaccel", c)>>)
                    /\ first_registration' =
                          IF c \in DOMAIN first_registration THEN first_registration
                          ELSE (c :> r) @@ first_registration
                    /\ UNCHANGED <<sessionVars, registered_actions>>
               ELSE /\ session_status' =
                          Awake(RecordHandle(session_status.gaccel_registers, c, FreeHandles[1]))
                    /\ host_gaccels' = (FreeHandles[1] :> c) @@ host_gaccels
                    /\ last_call' = Returned("register_action", c, r, "RegisteredAction",
                                             <<Call("add_gaccel", c)>>)
                    /\ registered_actions' = registered_actions \cup {c}
                    /\ first_registration' =
                          IF c \in DOMAIN first_registration THEN first_registration
                          ELSE (c :> r) @@ first_registration
                    /\ UNCHANGED <<host_hooks, host_audio_hook, panicked>>
    /\ UNCHANGED <<predicate_state, channelVars, guardVars, undoVars, thread_pc,
                   host_refused>>

\* RegisteredAction::unregister (reaper.rs:592-595) and unregister_action.
unregister(t, c) ==
    /\ ~panicked
    /\ thread_pc[t] \in {"idle", "dispatch"}
    /\ InOperation(t) => Len(frame.calls) <= MaxNestedCalls
    /\ c \in registered_actions
    /\ frame' = NestedCall(t, "unregister", c)
    /\ IF ~IsInMainThread(t)
       THEN /\ Panic(t, "unregister", c)
            /\ UNCHANGED <<command_by_id, first_registration, host_gaccels>>
       ELSE IF BorrowMutPanics(t)
       THEN /\ panicked' = TRUE
            /\ last_call' = Returned("unregister", c, 0, "panic", <<>>)
            /\ UNCHANGED <<command_by_id, first_registration, host_gaccels>>
       ELSE /\ command_by_id' = RemoveCommand(command_by_id, c)
            /\ first_registration' =
                  [x \in DOMAIN first_registration \ {c} |-> first_registration[x]]
            /\ host_gaccels' =
                  [x \in DOMAIN host_gaccels \ {HandleToRemove(c)} |-> host_gaccels[x]]
            /\ last_call' = Returned("unregister", c, 0, "Ok",
                    IF HandleToRemove(c) = 0 THEN <<>>
                    ELSE <<Call("remove_gaccel", HandleToRemove(c))>>)
            /\ UNCHANGED panicked
    /\ UNCHANGED <<session_status, host_hooks, host_audio_hook, registered_actions,
                   predicate_state, channelVars, guardVars, undoVars, thread_pc,
                   host_refused>>

\* ------------------------------------------------------------------------
\* Callbacks the host invokes on its main thread
\* ------------------------------------------------------------------------
\* reaper.rs:605-608: the operation of the command, "none" when the id is
\* not in the registry.
LookupOperation(c) ==
    IF c \in DOMAIN command_by_id THEN command_by_id[c].operation ELSE "none"

\* HighLevelHookCommand::call (reaper.rs:602-613)
HighLevelHookCommand_call(c) ==
    /\ ~panicked
    /\ thread_pc[MainThread] = "idle"
    /\ "hook_command" \in host_hooks
    /\ last_call' =
          IF LookupOperation(c) = "none"
          THEN Returned("hook_command", c, 0, "not handled", <<>>)
          ELSE Returned("hook_command", c, 0, "handled", <<Call(LookupOperation(c), c)>>)
    /\ UNCHANGED <<sessionVars, registryVars, channelVars, guardVars, undoVars,
                   thread_pc, frame, panicked, host_refused>>

\* HighLevelHookCommand::call for an operation that calls back into the
\* facade: reaper.rs:605-610, up to the point where the operation of a
\* registered command starts to run.
HighLevelHookCommand_call_operation(c) ==
    /\ ~panicked
    /\ thread_pc[MainThread] = "idle"
    /\ "hook_command" \in host_hooks
    /\ LookupOperation(c) # "none"
    /\ thread_pc' = [thread_pc EXCEPT ![MainThread] = "dispatch"]
    /\ frame' = [Frame("hook_command", <<Call(LookupOperation(c), c)>>)
                    EXCEPT !.command = c, !.registry_borrowed = RegistryBorrowedByDispatch]
    /\ last_call' = Returned("hook_command", c, 0, "running", <<>>)
    /\ UNCHANGED <<sessionVars, registryVars, channelVars, guardVars, undoVars,
                   panicked, host_refused>>

\* reaper.rs:610-611: the operation returns and the dispatch returns true.
HighLevelHookCommand_return ==
    /\ ~panicked
    /\ thread_pc[MainThread] = "dispatch"
    /\ thread_pc' = [thread_pc EXCEPT ![MainThread] = "idle"]
    /\ frame' = NoFrame
    /\ last_call' = Returned("hook_command", frame.command, 0, "handled", frame.calls)
    /\ UNCHANGED <<sessionVars, registryVars, channelVars, guardVars, undoVars,
                   panicked, host_refused>>

\* HighLevelToggleAction::call (reaper.rs:642-659)
ToggleActionResultIgnoresKind(c) ==
    IF c \in DOMAIN command_by_id
    THEN IF predicate_state["is_on_1"] THEN "On" ELSE "Off"
    ELSE "NotRelevant"

ToggleActionResult(c) ==
    IF c \in DOMAIN command_by_id
    THEN IF command_by_id[c].kind.toggleable
         THEN IF predicate_state[command_by_id[c].kind.is_on] THEN "On" ELSE "Off"
         ELSE "NotRelevant"
    ELSE "NotRelevant"

HighLevelToggleAction_call(c) ==
    /\ ~panicked
    /\ thread_pc[MainThread] = "idle"
    /\ "toggle_action" \in host_hooks
    /\ last_call' = Returned("toggle_action", c, 0, ToggleActionResult(c), <<>>)
    /\ UNCHANGED <<sessionVars, registryVars, channelVars, guardVars, undoVars,
                   thread_pc, frame, panicked, host_refused>>

\* The extension changes the state a toggle predicate reads.
set_predicate(p) ==
    /\ ~panicked
    /\ thread_pc[MainThread] = "idle"
    /\ predicate_state' = [predicate_state EXCEPT ![p] = ~@]
    /\ last_call' = Returned("set_predicate", 0, 0, "Ok", <<>>)
    /\ UNCHANGED <<sessionVars, command_by_id, registered_actions, first_registration,
                   channelVars, guardVars, undoVars, thread_pc, frame, panicked,
                   host_refused>>

\* ------------------------------------------------------------------------
\* The task channel and the audio callback adapter
\* ------------------------------------------------------------------------
\* What Sender::send (reaper.rs:481-483) does on the bounded channel: it
\* fails when the receiver is gone, appends when there is room, and otherwise
\* blocks the calling thread until one of the two happens.
SendOutcomeIgnoresDisconnect ==
    IF Len(queue) < ChannelCapacity THEN "Ok" ELSE "blocked"

SendOutcomeUnbounded ==
    IF ~Connected THEN "channel was disconnected" ELSE "Ok"

SendOutcome ==
    IF ~Connected THEN "channel was disconnected"
    ELSE IF Len(queue) < ChannelCapacity THEN "Ok"
    ELSE "blocked"

\* do_later_in_real_time_audio_thread_asap (reaper.rs:476-484), from any thread.
do_later_in_real_time_audio_thread_asap(t) ==
    /\ ~panicked
    /\ thread_pc[t] = "idle"
    /\ next_task <= MaxTasks
    /\ next_task' = next_task + 1
    /\ last_call' = ReturnedOn(t, "do_later", next_task, t, SendOutcome, <<>>)
    /\ queue' = IF SendOutcome = "Ok" THEN Append(queue, next_task) ELSE queue
    /\ IF SendOutcome = "blocked"
       THEN /\ thread_pc' = [thread_pc EXCEPT ![t] = "send"]
            /\ send_task' = [send_task EXCEPT ![t] = next_task]
       ELSE UNCHANGED <<thread_pc, send_task>>
    /\ UNCHANGED <<sessionVars, registryVars, executed, discarded, queued_asleep,
                   guardVars, undoVars, frame, panicked, host_refused>>

\* A blocked send returns once the channel has room or is disconnected.
send_returns(t) ==
    /\ ~panicked
    /\ thread_pc[t] = "send"
    /\ SendOutcome # "blocked"
    /\ last_call' = ReturnedOn(t, "do_later", send_task[t], t, SendOutcome, <<>>)
    /\ queue' = IF SendOutcome = "Ok" THEN Append(queue, send_task[t]) ELSE queue
    /\ thread_pc' = [thread_pc EXCEPT ![t] = "idle"]
    /\ send_task' = [send_task EXCEPT ![t] = 0]
    /\ UNCHANGED <<sessionVars, registryVars, next_task, executed, discarded, queued_asleep,
                   guardVars, undoVars, frame, panicked, host_refused>>

\* reaper.rs:165-168: the tasks one audio callback takes from the queue.
TasksToRunWholeQueue(is_post) == IF is_post THEN <<>> ELSE queue

TasksToRunNothing(is_post) == <<>>

TasksToRun(is_post) ==
    IF is_post THEN <<>>
    ELSE SubSeq(queue, 1, Min(AUDIO_THREAD_TASK_BULK_SIZE, Len(queue)))

\* HighOnAudioBuffer::call (reaper.rs:158-173), called by the host on the
\* real-time thread while the adapter is its audio hook.
HighOnAudioBuffer_call(is_post) ==
    /\ ~panicked
    /\ host_audio_hook
    /\ queue' = SubSeq(queue, Len(TasksToRun(is_post)) + 1, Len(queue))
    /\ executed' = executed \o TasksToRun(is_post)
    /\ last_call' = ReturnedOn(RealTimeThread, "on_audio_buffer", Len(queue), is_post, "Ok",
                               [i \in 1..Len(TasksToRun(is_post)) |->
                                   Call("task", TasksToRun(is_post)[i])])
    /\ UNCHANGED <<sessionVars, registryVars, next_task, discarded, queued_asleep, send_task,
                   guardVars, undoVars, thread_pc, frame, panicked, host_refused>>

\* reaper.rs:149: what try_iter().count() does with a task it takes out of
\* the queue: the task is dropped without being called.
CountTaskRunsLate(task) ==
    [executed |-> Append(executed, task), discarded |-> discarded \cup {task}]

CountTask(task) == [executed |-> executed, discarded |-> discarded \cup {task}]

\* One step of the drain in discard_tasks (reaper.rs:148-149), which wake_up
\* runs through reset() at reaper.rs:333.
discard_tasks(task) ==
    /\ ~panicked
    /\ thread_pc[MainThread] = "wake_up"
    /\ queue # <<>>
    /\ task = Head(queue)
    /\ queue' = Tail(queue)
    /\ executed' = CountTask(task).executed
    /\ discarded' = CountTask(task).discarded
    /\ frame' = [frame EXCEPT !.task_count = @ + 1, !.drained = @ \cup {task}]
    /\ last_call' = Returned(frame.caller, task, 0, "running", <<>>)
    /\ UNCHANGED <<sessionVars, registryVars, next_task, queued_asleep, send_task,
                   guardVars, undoVars, thread_pc, panicked, host_refused>>

\* ------------------------------------------------------------------------
\* guarded() and the release of a guard (reaper.rs:236-278)
\* ------------------------------------------------------------------------
guarded(t) ==
    /\ ~panicked
    /\ thread_pc[t] = "idle"
    /\ ~GuardLocked
    /\ IF Upgrade
       THEN /\ strong_count < MaxStrong
            /\ strong_count' = strong_count + 1
            /\ last_call' = ReturnedOn(t, "guarded", REAPER_GUARD, 0, "shared", <<>>)
            /\ UNCHANGED <<REAPER_GUARD, GUARD_INITIALIZER, initializer_runs, wake_fn_runs,
                           session_status, thread_pc, frame, panicked>>
       ELSE /\ REAPER_GUARD < MaxCycles
            /\ GUARD_INITIALIZER' = TRUE
            /\ initializer_runs' = IF CallOnce THEN initializer_runs + 1 ELSE initializer_runs
            /\ LET calls == IF CallOnce THEN <<Call("initializer", 0)>> ELSE <<>>
               IN  IF ~IsInMainThread(t)
                   THEN \* wake_up panics
                        /\ Panic(t, "guarded", 0)
                        /\ UNCHANGED <<REAPER_GUARD, strong_count, wake_fn_runs,
                                       session_status, thread_pc, frame>>
                   ELSE IF WakeUpEntry = "proceed"
                   THEN /\ session_status' = TakeSleepingState
                        /\ thread_pc' = [thread_pc EXCEPT ![t] = "wake_up"]
                        /\ frame' = Frame("guarded", calls)
                        /\ last_call' = Returned("guarded", 0, 0, "running", calls)
                        /\ UNCHANGED <<REAPER_GUARD, strong_count, wake_fn_runs, panicked>>
                   ELSE /\ GuardedActivate(calls \o <<Call("wake_up", ResultCode(WakeUpEntry))>>)
                        /\ UNCHANGED <<session_status, thread_pc, frame, panicked>>
    /\ UNCHANGED <<host_hooks, host_gaccels, host_audio_hook, registryVars, channelVars,
                   teardown_runs, undoVars, host_refused>>

\* ReaperGuard::drop (reaper.rs:236-245) runs when the last strong reference
\* goes away: the stored closure, then go_to_sleep, whose result is ignored.
LastReferenceAnyRelease == TRUE

LastReferenceNever == FALSE

LastReference == strong_count = 1

drop_guard(t, removed) ==
    /\ ~panicked
    /\ thread_pc[t] = "idle"
    /\ strong_count > 0
    /\ strong_count' = strong_count - 1
    /\ IF LastReference
       THEN /\ teardown_runs' = [teardown_runs EXCEPT ![REAPER_GUARD] = @ + 1]
            /\ IF ~IsInMainThread(t)
               THEN \* go_to_sleep panics
                    /\ Panic(t, "drop_guard", REAPER_GUARD)
                    /\ UNCHANGED <<sessionVars, queued_asleep, host_refused>>
               ELSE LET o == GoToSleep(removed)
                    IN  /\ session_status' = o.status
                        /\ host_hooks' = o.hooks
                        /\ host_gaccels' = o.gaccels
                        /\ host_audio_hook' = o.audio
                        /\ queued_asleep' =
                              IF o.result = "Ok" THEN queued_asleep \cup Range(queue)
                              ELSE queued_asleep
                        /\ host_refused' =
                              (host_refused \/ o.result = "audio hook was not registered")
                        /\ last_call' = Returned("drop_guard", REAPER_GUARD, 0, "dropped",
                              <<Call("go_to_sleep_fn", REAPER_GUARD),
                                Call("go_to_sleep", ResultCode(o.result))>> \o o.calls)
                        /\ UNCHANGED panicked
       ELSE /\ last_call' = ReturnedOn(t, "drop_guard", REAPER_GUARD, 0, "released", <<>>)
            /\ UNCHANGED <<sessionVars, queued_asleep, host_refused, teardown_runs, panicked>>
    /\ UNCHANGED <<REAPER_GUARD, GUARD_INITIALIZER, initializer_runs, wake_fn_runs,
                   registryVars, queue, next_task, executed, discarded, send_task,
                   undoVars, thread_pc, frame>>

\* ------------------------------------------------------------------------
\* Undo blocks (reaper.rs:491-516)
\* ------------------------------------------------------------------------
\* reaper.rs:499-501
EnterOpensBlockAlways == TRUE

EnterOpensBlock == ~undo_block_is_active

\* reaper.rs:510-512
LeaveEndsBlockNever == FALSE

LeaveEndsBlock == undo_block_is_active

enter_undo_block_internal(t, project) ==
    /\ ~panicked
    /\ thread_pc[t] = "idle"
    /\ Len(undo_trace) < MaxUndoCalls
    /\ IF ~IsInMainThread(t)
       THEN /\ Panic(t, "enter_undo_block", 0)
            /\ UNCHANGED undoVars
       ELSE /\ undo_trace' = Append(undo_trace, Call("enter", project))
            /\ IF EnterOpensBlock
               THEN /\ undo_block_is_active' = TRUE
                    /\ host_undo' = Append(host_undo, Call("undo_begin_block_2", project))
                    /\ last_call' = Returned("enter_undo_block", 0, undo_block_is_active,
                                             "Some", <<Call("undo_begin_block_2", project)>>)
               ELSE /\ last_call' = Returned("enter_undo_block", 0, undo_block_is_active,
                                             "None", <<>>)
                    /\ UNCHANGED <<undo_block_is_active, host_undo>>
            /\ UNCHANGED panicked
    /\ UNCHANGED <<sessionVars, registryVars, channelVars, guardVars, thread_pc, frame,
                   host_refused>>

leave_undo_block_internal(t, project) ==
    /\ ~panicked
    /\ thread_pc[t] = "idle"
    /\ Len(undo_trace) < MaxUndoCalls
    /\ IF ~IsInMainThread(t)
       THEN /\ Panic(t, "leave_undo_block", 0)
            /\ UNCHANGED undoVars
       ELSE /\ undo_trace' = Append(undo_trace, Call("leave", project))
            /\ IF LeaveEndsBlock
               THEN /\ host_undo' = Append(host_undo, Call("undo_end_block_2", project))
                    /\ undo_block_is_active' = FALSE
                    /\ last_call' = Returned("leave_undo_block", 0, undo_block_is_active,
                                             "Ok", <<Call("undo_end_block_2", project)>>)
               ELSE /\ last_call' = Returned("leave_undo_block", 0, undo_block_is_active,
                                             "Ok", <<>>)
                    /\ UNCHANGED <<undo_block_is_active, host_undo>>
            /\ UNCHANGED panicked
    /\ UNCHANGED <<sessionVars, registryVars, channelVars, guardVars, thread_pc, frame,
                   host_refused>>

\* ------------------------------------------------------------------------
\* Session and registry: the operations called on the main thread, the host
\* answering each registration call as it likes.
\* ------------------------------------------------------------------------
Next ==
    \/ wake_up(MainThread)
    \/ \E h \in HostAnswers : wake_up_register(h)
    \/ \E removed \in BOOLEAN : go_to_sleep(MainThread, removed)
    \/ \E c \in CommandIds, r \in Requests, accepted \in BOOLEAN :
          register_action(MainThread, c, r, accepted)
    \/ \E c \in CommandIds : unregister(MainThread, c)
    \/ \E c \in CommandIds : HighLevelHookCommand_call(c)
    \/ \E c \in CommandIds : HighLevelToggleAction_call(c)
    \/ \E p \in Predicates : set_predicate(p)

Spec == Init /\ [][Next]_vars

\* ------------------------------------------------------------------------
\* The task channel: producers on both threads, the audio callback on the
\* real-time thread, and the session going to sleep and waking up.
\* ------------------------------------------------------------------------
NextChannel ==
    \/ \E t \in Threads : do_later_in_real_time_audio_thread_asap(t)
    \/ \E t \in Threads : send_returns(t)
    \/ \E is_post \in BOOLEAN : HighOnAudioBuffer_call(is_post)
    \/ wake_up(MainThread)
    \/ \E task \in Tasks : discard_tasks(task)
    \/ \E h \in HostAnswers : wake_up_register(h)
    \/ \E removed \in BOOLEAN : go_to_sleep(MainThread, removed)

SpecChannel == Init /\ [][NextChannel]_vars

\* The same, with a host that keeps calling the audio callback in its
\* pre-processing phase for as long as the adapter is its audio hook.
SpecChannelLive ==
    Init /\ [][NextChannel]_vars /\ WF_vars(HighOnAudioBuffer_call(FALSE))

\* ------------------------------------------------------------------------
\* The guard: extension modules acquire and release guards on the main
\* thread and call nothing else.
\* ------------------------------------------------------------------------
NextGuard ==
    \/ guarded(MainThread)
    \/ \E h \in HostAnswers : wake_up_register(h)
    \/ \E removed \in BOOLEAN : drop_guard(MainThread, removed)

SpecGuard == Init /\ [][NextGuard]_vars

\* ------------------------------------------------------------------------
\* Undo blocks: enter and leave calls on the main thread.
\* ------------------------------------------------------------------------
NextUndo ==
    \/ \E project \in Projects : enter_undo_block_internal(MainThread, project)
    \/ \E project \in Projects : leave_undo_block_internal(MainThread, project)

SpecUndo == Init /\ [][NextUndo]_vars

\* ------------------------------------------------------------------------
\* Thread affinity: the main-thread-only operations of the facade and the
\* release of a guard, called from the main thread and from a worker thread,
\* for one action and one project, with a host that accepts every
\* registration and removal.
\* ------------------------------------------------------------------------
AllAccepted ==
    [hook_command |-> TRUE, toggle_action |-> TRUE, hook_post_command_2 |-> TRUE,
     gaccel |-> CommandIds, audio_hook |-> TRUE]

NextThreads ==
    \/ \E t \in Threads : wake_up(t)
    \/ wake_up_register(AllAccepted)
    \/ \E t \in Threads : go_to_sleep(t, TRUE)
    \/ \E t \in Threads : register_action(t, 1, Command("op1", NotToggleable, "d1"), TRUE)
    \/ \E t \in Threads : unregister(t, 1)
    \/ \E t \in Threads : guarded(t)
    \/ \E t \in Threads : drop_guard(t, TRUE)
    \/ \E t \in Threads : enter_undo_block_internal(t, "P1")
    \/ \E t \in Threads : leave_undo_block_internal(t, "P1")

SpecThreads == Init /\ [][NextThreads]_vars

\* ------------------------------------------------------------------------
\* Dispatch: operations that register and unregister actions while the host
\* dispatches them.  The host accepts every accelerator entry it has a handle
\* for; it may refuse the toggle hook of a wake_up, which leaves the command
\* hook registered with the session Sleeping.
\* ------------------------------------------------------------------------
DispatchAnswers == {AllAccepted, [AllAccepted EXCEPT !.toggle_action = FALSE]}

NextDispatch ==
    \/ wake_up(MainThread)
    \/ \E h \in DispatchAnswers : wake_up_register(h)
    \/ go_to_sleep(MainThread, TRUE)
    \/ \E c \in CommandIds : register_action(MainThread, c, Command("op1", NotToggleable, "d1"), TRUE)
    \/ \E c \in CommandIds : unregister(MainThread, c)
    \/ \E c \in CommandIds : HighLevelHookCommand_call(c)
    \/ \E c \in CommandIds : HighLevelHookCommand_call_operation(c)
    \/ HighLevelHookCommand_return

SpecDispatch == Init /\ [][NextDispatch]_vars

\* ------------------------------------------------------------------------
\* Properties
\* ------------------------------------------------------------------------
hostRegistrations == <<host_hooks, host_gaccels, host_audio_hook>>

IsError(result) == result \notin {"Ok", "running", "panic"}

\* C1: the session only goes from Sleeping to Awake in a wake_up that
\* returns Ok and from Awake to Sleeping in a go_to_sleep that returns Ok;
\* wake_up called while Awake and go_to_sleep called while Sleeping return an
\* error and leave the session status, the registry and the host's
\* registrations as they were.
C1_StrictAlternation ==
    [][ /\ (session_status.kind = "Awake" /\ last_call'.op = "wake_up") =>
              /\ IsError(last_call'.result)
              /\ UNCHANGED <<session_status, command_by_id, hostRegistrations>>
        /\ (session_status.kind = "Sleeping" /\ last_call'.op = "go_to_sleep") =>
              /\ IsError(last_call'.result)
              /\ UNCHANGED <<session_status, command_by_id, hostRegistrations>>
        /\ (session_status.kind = "Sleeping" /\ session_status'.kind = "Awake") =>
              last_call'.op = "wake_up" /\ last_call'.result = "Ok"
        /\ (session_status.kind = "Awake" /\ session_status'.kind = "Sleeping") =>
              last_call'.op = "go_to_sleep" /\ last_call'.result = "Ok"
      ]_vars

\* A wake_up has just been refused on an Awake session that holds
\* accelerator entries.
C1_Witness ==
    /\ last_call.op = "wake_up"
    /\ last_call.result = "Session is already awake"
    /\ session_status.kind = "Awake"
    /\ DOMAIN session_status.gaccel_registers # {}
    /\ DOMAIN host_gaccels # {}

\* C2: the registry holds, for each command id in use, exactly the
\* operation, kind and description of the first register_action call made for
\* the id since it was last unregistered, and a dispatch of the id invokes that
\* first operation.
C2_FirstRegistrationWins ==
    /\ command_by_id = first_registration
    /\ (last_call.op = "hook_command" /\ last_call.id \in DOMAIN first_registration) =>
          last_call.calls = <<Call(first_registration[last_call.id].operation, last_call.id)>>

\* register_action has just returned for an id that was registered before
\* with other arguments.
C2_Witness ==
    /\ last_call.op = "register_action"
    /\ last_call.result = "RegisteredAction"
    /\ last_call.id \in DOMAIN command_by_id
    /\ command_by_id[last_call.id] # last_call.arg

\* C3: a dispatch returns "handled" and invokes the operation once exactly
\* when its command id is registered and not unregistered since; otherwise it
\* returns "not handled" and invokes nothing.  unregister leaves the id out of
\* the registry in both session states.
C3_DispatchIffRegistered ==
    /\ last_call.op = "hook_command" =>
          IF last_call.id \in DOMAIN first_registration
          THEN /\ last_call.result = "handled"
               /\ Len(last_call.calls) = 1
               /\ last_call.calls[1].call = first_registration[last_call.id].operation
          ELSE /\ last_call.result = "not handled"
               /\ last_call.calls = <<>>
    /\ (last_call.op = "unregister" /\ last_call.result = "Ok") =>
          last_call.id \notin DOMAIN command_by_id

\* A dispatch was not handled for an id that had been unregistered while the
\* session was Awake.
C3_Witness ==
    /\ last_call.op = "hook_command"
    /\ last_call.result = "not handled"
    /\ last_call.id \in registered_actions
    /\ session_status.kind = "Awake"
    /\ last_call.id \in DOMAIN session_status.gaccel_registers

\* C4: a call of do_later_in_real_time_audio_thread_asap on a full queue
\* returns an error at once: no thread is ever blocked in the call, and a call
\* that found the queue full has returned an error.
C4_FullQueueRejectsAtOnce ==
    /\ \A t \in Threads : thread_pc[t] # "send"
    /\ (last_call.op = "do_later" /\ Len(queue) = ChannelCapacity
            /\ last_call.id \notin Range(queue)) =>
          IsError(last_call.result)

LoggedCount(calls) ==
    IF calls # <<>> /\ calls[1].call = "warn_discarded" THEN calls[1].id ELSE 0

PastDrain ==
    /\ last_call.op = "wake_up"
    /\ last_call.result \notin {"running", "Session is already awake",
                                "Previous wake-up left session in invalid state"}

\* C5 as stated: the count wake_up logs is the number of tasks that were in
\* the queue when the call started.
C5_CountIsQueuedAtStart ==
    PastDrain => LoggedCount(last_call.calls) = Cardinality(last_call.arg.queued)

\* C5, amended: no discarded task is ever executed or left in the queue; a
\* wake_up that got past its drain has taken out every task that was queued
\* when it started, and the count it logs is the number of tasks it took out;
\* no task that was queued when a go_to_sleep completed is ever executed.
C5_DiscardOnWakeUp ==
    /\ discarded \cap Range(executed) = {}
    /\ discarded \cap Range(queue) = {}
    /\ queued_asleep \cap Range(executed) = {}
    /\ PastDrain =>
          /\ last_call.arg.queued \subseteq last_call.arg.drained
          /\ last_call.arg.drained \subseteq discarded
          /\ LoggedCount(last_call.calls) = Cardinality(last_call.arg.drained)

\* A wake_up has discarded tasks that were queued when the session went to
\* sleep, and tasks have been executed before.
C5_Witness ==
    /\ PastDrain
    /\ last_call.arg.queued # {}
    /\ last_call.arg.queued \cap queued_asleep # {}
    /\ executed # <<>>

CountCalls(calls, name) == Cardinality({i \in DOMAIN calls : calls[i].call = name})

\* C6: while a strong reference is alive, guarded() hands out the same token
\* and does nothing else; the closure of a token and go_to_sleep run once,
\* when the last reference to the token is released, and not before.
C6_GuardSharing ==
    /\ [](/\ \A k \in Tokens :
                teardown_runs[k] =
                    IF k < REAPER_GUARD \/ (k = REAPER_GUARD /\ strong_count = 0)
                    THEN 1 ELSE 0
          /\ (last_call.op = "drop_guard" /\ last_call.result = "dropped") =>
                /\ strong_count = 0
                /\ CountCalls(last_call.calls, "go_to_sleep_fn") = 1
                /\ CountCalls(last_call.calls, "go_to_sleep") = 1
                /\ last_call.calls[1].call = "go_to_sleep_fn"
          /\ (last_call.op = "drop_guard" /\ last_call.result = "released") =>
                strong_count > 0 /\ last_call.calls = <<>>)
    /\ [][ (strong_count > 0 /\ last_call'.op = "guarded") =>
              /\ last_call'.result = "shared"
              /\ last_call'.id = REAPER_GUARD
              /\ last_call'.calls = <<>>
              /\ strong_count' = strong_count + 1
              /\ UNCHANGED <<REAPER_GUARD, GUARD_INITIALIZER, initializer_runs, wake_fn_runs,
                             teardown_runs, sessionVars, registryVars, channelVars>>
         ]_vars

\* A second module holds the token of a guard that was already alive.
C6_Witness ==
    /\ last_call.op = "guarded"
    /\ last_call.result = "shared"
    /\ strong_count >= 2

\* C7: the initializer runs once, in the first activation and before its
\* wake_up; every activation runs wake_up once and the wake-up function once.
C7_InitializerOnce ==
    /\ initializer_runs = (IF GUARD_INITIALIZER THEN 1 ELSE 0)
    /\ \A k \in Tokens : wake_fn_runs[k] = (IF k <= REAPER_GUARD THEN 1 ELSE 0)
    /\ (last_call.op = "guarded" /\ last_call.result = "activated") =>
          /\ CountCalls(last_call.calls, "initializer") = (IF last_call.id = 1 THEN 1 ELSE 0)
          /\ CountCalls(last_call.calls, "wake_up") = 1
          /\ CountCalls(last_call.calls, "wake_up_fn") = 1
          /\ last_call.id = 1 =>
                /\ last_call.calls[1].call = "initializer"
                /\ last_call.calls[2].call = "wake_up"

\* The second activation has completed.
C7_Witness ==
    /\ last_call.op = "guarded"
    /\ last_call.result = "activated"
    /\ last_call.id = 2

Kinds(calls) == [i \in DOMAIN calls |-> calls[i].call]

\* C9: the host sees begin and end calls in turn, begin first; the flag is
\* set exactly while a host block is open; enter with the flag set returns no
\* scope and calls nothing, leave with the flag clear calls nothing; enter,
\* enter, leave, leave gives one begin and one end.
C9_NoNestedUndoBlock ==
    /\ \A i \in DOMAIN host_undo :
          host_undo[i].call = IF i % 2 = 1 THEN "undo_begin_block_2" ELSE "undo_end_block_2"
    /\ undo_block_is_active <=> (Len(host_undo) % 2 = 1)
    /\ (last_call.op = "enter_undo_block" /\ last_call.arg) =>
          last_call.result = "None" /\ last_call.calls = <<>>
    /\ (last_call.op = "enter_undo_block" /\ ~last_call.arg) =>
          last_call.result = "Some" /\ Kinds(last_call.calls) = <<"undo_begin_block_2">>
    /\ (last_call.op = "leave_undo_block" /\ ~last_call.arg) => last_call.calls = <<>>
    /\ Kinds(undo_trace) = <<"enter", "enter", "leave", "leave">> =>
          Kinds(host_undo) = <<"undo_begin_block_2", "undo_end_block_2">>

\* enter, enter, leave, leave has been called.
C9_Witness ==
    Kinds(undo_trace) = <<"enter", "enter", "leave", "leave">>

\* C10: the toggle query answers NotRelevant for an id that is not registered
\* or whose kind is NotToggleable, and On or Off as the predicate says now
\* otherwise; it changes neither the registry, the session status nor the
\* host's registrations.
C10_ToggleQuery ==
    /\ [](last_call.op = "toggle_action" =>
            IF last_call.id \notin DOMAIN first_registration
            THEN last_call.result = "NotRelevant"
            ELSE IF ~first_registration[last_call.id].kind.toggleable
            THEN last_call.result = "NotRelevant"
            ELSE last_call.result =
                    IF predicate_state[first_registration[last_call.id].kind.is_on]
                    THEN "On" ELSE "Off")
    /\ [][ last_call'.op = "toggle_action" =>
              UNCHANGED <<command_by_id, session_status, hostRegistrations>> ]_vars

\* The query has answered NotRelevant for a registered action that is not
\* toggleable.
C10_Witness ==
    /\ last_call.op = "toggle_action"
    /\ last_call.id \in DOMAIN command_by_id
    /\ ~command_by_id[last_call.id].kind.toggleable
    /\ last_call.result = "NotRelevant"

\* C11: a pre-processing audio callback runs the oldest queued task and
\* takes it out of the queue, or runs nothing when the queue is empty; a
\* post-processing callback runs nothing and leaves the queue as it is; the
\* queue only grows at its tail and shrinks at its head, so tasks run in the
\* order in which they were enqueued, at most one per callback.
C11_OldestTaskPerCallback ==
    [][ /\ last_call'.op = "on_audio_buffer" =>
              IF last_call'.arg \/ queue = <<>>
              THEN /\ UNCHANGED <<queue, executed>>
                   /\ last_call'.calls = <<>>
              ELSE /\ executed' = Append(executed, Head(queue))
                   /\ queue' = Tail(queue)
                   /\ last_call'.calls = <<Call("task", Head(queue))>>
        /\ last_call'.op # "on_audio_buffer" => executed' = executed
        /\ \/ queue' = queue
           \/ queue # <<>> /\ queue' = Tail(queue)
           \/ \E task \in Tasks : queue' = Append(queue, task)
      ]_vars

\* A pre-processing callback has run the oldest of two queued tasks, after
\* another task had been run before.
C11_Witness ==
    /\ last_call.op = "on_audio_buffer"
    /\ ~last_call.arg
    /\ last_call.id = 2
    /\ Len(executed) >= 2
    /\ Len(queue) = 1

MainThreadOnly ==
    {"wake_up", "go_to_sleep", "register_action", "unregister", "guarded",
     "enter_undo_block", "leave_undo_block"}

\* C12: a main-thread-only operation called from another thread panics and
\* leaves the session status, the registry, the undo flag and the guard token
\* with its reference count as they were.
C12_MainThreadOnly ==
    [][ (last_call'.op \in MainThreadOnly /\ last_call'.thread # MainThread) =>
            /\ last_call'.result = "panic"
            /\ UNCHANGED <<session_status, command_by_id, undo_block_is_active,
                           REAPER_GUARD, strong_count>>
      ]_vars

\* C13: when the host refuses a registration of wake_up or the accelerator
\* entry of register_action, the operation returns an error and does not
\* panic, and a wake_up that was refused leaves the session Sleeping.
C13_RefusalIsRecoverable ==
    /\ (last_call.op \in {"wake_up", "register_action"} /\ last_call.thread = MainThread) =>
          last_call.result # "panic" /\ ~panicked
    /\ (PastDrain /\ last_call.result # "Ok") =>
          IsError(last_call.result) /\ session_status.kind = "Sleeping"

\* C14: as long as the host has refused no call, whenever the session is
\* Sleeping and no operation is running the host holds none of the three
\* hooks, no accelerator entry and no audio hook.
C14_SleepingHoldsNothing ==
    (session_status.kind = "Sleeping" /\ thread_pc[MainThread] = "idle"
        /\ ~host_refused /\ ~panicked) =>
        /\ host_hooks = {}
        /\ host_gaccels = EmptyMap
        /\ ~host_audio_hook

\* C15: a call of do_later_in_real_time_audio_thread_asap on a disconnected
\* channel returns an error without panicking and without blocking the
\* caller, and leaves the queue as it is; a call on a connected channel with
\* free capacity returns Ok and appends the task to the queue.  A
\* disconnected channel stays disconnected and nothing is executed from it, so
\* a rejected task is never executed.
C15_DisconnectedIsAnError ==
    [][ /\ (last_call'.op = "do_later" /\ thread_pc[last_call'.thread] = "idle") =>
              IF ~Connected
              THEN /\ IsError(last_call'.result)
                   /\ ~panicked'
                   /\ UNCHANGED <<queue, thread_pc, executed>>
              ELSE Len(queue) < ChannelCapacity =>
                      /\ last_call'.result = "Ok"
                      /\ queue' = Append(queue, last_call'.id)
        /\ ~Connected => (~Connected' /\ UNCHANGED <<queue, executed>>)
      ]_vars

\* A call from the worker thread was rejected because the channel is
\* disconnected, after tasks had been executed and others discarded.
C15_Witness ==
    /\ last_call.op = "do_later"
    /\ last_call.thread # MainThread
    /\ last_call.result = "channel was disconnected"
    /\ ~Connected
    /\ executed # <<>>
    /\ discarded # {}

\* C16: the adapter is in exactly one place (parked in the Sleeping state,
\* in the hands of a running wake_up, or with the host as its audio hook), and
\* once wake_up or go_to_sleep has returned, with or without an error, a
\* Sleeping session holds its adapter.
C16_AdapterInOnePlace ==
    ~panicked =>
        /\ AdapterPlaces = 1
        /\ (last_call.op \in {"wake_up", "go_to_sleep"} /\ last_call.result # "running"
                /\ session_status.kind = "Sleeping") => session_status.audio_hook

\* C17: the adapter is never both with the host and with the main thread;
\* the main thread takes tasks out of the queue (the drain of wake_up) only
\* while the adapter is not the host's audio hook, and the audio callback runs
\* only while the session is Awake and no wake_up is running.
C17_OneOwnerOfAdapter ==
    /\ [](/\ AdapterPlaces <= 1
          /\ host_audio_hook <=> session_status.kind = "Awake")
    /\ [][ /\ frame'.task_count > frame.task_count =>
                  ~host_audio_hook /\ ~host_audio_hook'
           /\ last_call'.op = "on_audio_buffer" =>
                  /\ host_audio_hook
                  /\ session_status.kind = "Awake"
                  /\ thread_pc[MainThread] # "wake_up"
         ]_vars

\* A wake_up is draining tasks that were queued while the session was
\* asleep, after the audio callback had run tasks while it was Awake.
C17_Witness ==
    /\ thread_pc[MainThread] = "wake_up"
    /\ frame.task_count > 0
    /\ executed # <<>>
    /\ queue # <<>>

\* C18: whenever the session is Awake and no operation has panicked, the
\* command ids of the Awake state's accelerator-handle map are the command ids
\* of the registry, and the host holds exactly one accelerator entry for each
\* of them.
C18_HandlesMirrorRegistry ==
    (session_status.kind = "Awake" /\ ~panicked) =>
        /\ DOMAIN session_status.gaccel_registers = DOMAIN command_by_id
        /\ \A c \in DOMAIN command_by_id :
              Cardinality({x \in DOMAIN host_gaccels : host_gaccels[x] = c}) = 1

\* C19: a go_to_sleep on an Awake session whose audio hook the host does
\* not remove returns an error after that one call to the host and leaves the
\* session status (Awake, with its handle map) and all registrations of the
\* host as they were; a go_to_sleep on an Awake session whose audio hook the
\* host removes returns Ok and leaves the session Sleeping with its adapter,
\* also when an earlier go_to_sleep has failed.
C19_FailedSleepChangesNothing ==
    [][ (session_status.kind = "Awake" /\ last_call'.op = "go_to_sleep") =>
            /\ last_call'.calls # <<>>
            /\ last_call'.calls[1] = Call("audio_reg_hardware_hook_remove", 0)
            /\ IF last_call'.result = "Ok"
               THEN session_status' = Sleeping(TRUE) /\ ~host_audio_hook'
               ELSE /\ last_call'.result = "audio hook was not registered"
                    /\ Len(last_call'.calls) = 1
                    /\ UNCHANGED <<session_status, hostRegistrations, command_by_id>>
      ]_vars

\* A go_to_sleep has succeeded after the host had refused to remove the
\* audio hook in an earlier go_to_sleep, for a session with an accelerator
\* entry.
C19_Witness ==
    /\ last_call.op = "go_to_sleep"
    /\ last_call.result = "Ok"
    /\ host_refused
    /\ Len(last_call.calls) > 4
    /\ session_status = Sleeping(TRUE)

\* The calls of one operation without the warning of the drain.
HostCalls(calls) ==
    IF calls # <<>> /\ calls[1].call = "warn_discarded" THEN Tail(calls) ELSE calls

\* C20: a wake_up that returns Ok has called the host to add the
\* command hook, the toggle hook, the post-command hook, one accelerator entry
\* for each command id of the registry and last the audio hook, in this order;
\* a go_to_sleep that returns Ok has called the host to remove the audio hook
\* first, then every accelerator handle of the Awake state, then the
\* post-command hook, the toggle hook and the command hook, and leaves the
\* session Sleeping.
C20_RegistrationOrder ==
    [][ /\ (last_call'.op = "wake_up" /\ last_call'.result = "Ok") =>
              LET calls == HostCalls(last_call'.calls)
                  n == Cardinality(DOMAIN command_by_id)
              IN  /\ Len(calls) = n + 4
                  /\ Kinds(SubSeq(calls, 1, 3)) =
                        <<"add_hook_command", "add_toggle_action", "add_hook_post_command_2">>
                  /\ \A i \in 4..(n + 3) : calls[i].call = "add_gaccel"
                  /\ {calls[i].id : i \in 4..(n + 3)} = DOMAIN command_by_id
                  /\ calls[n + 4].call = "audio_reg_hardware_hook_add"
                  /\ session_status'.kind = "Awake"
        /\ (last_call'.op = "go_to_sleep" /\ last_call'.result = "Ok") =>
              LET calls == last_call'.calls
                  handles == Range(session_status.gaccel_registers)
                  k == Cardinality(handles)
              IN  /\ Len(calls) = k + 4
                  /\ calls[1].call = "audio_reg_hardware_hook_remove"
                  /\ \A i \in 2..(k + 1) : calls[i].call = "remove_gaccel"
                  /\ {calls[i].id : i \in 2..(k + 1)} = handles
                  /\ Kinds(SubSeq(calls, k + 2, k + 4)) =
                        <<"remove_hook_post_command_2", "remove_toggle_action",
                          "remove_hook_command">>
                  /\ session_status.kind = "Awake"
                  /\ session_status'.kind = "Sleeping"
      ]_vars

\* A session that was woken up with two actions in its registry has gone to
\* sleep, the host having been asked to remove two accelerator handles.
C20_Witness ==
    /\ last_call.op = "go_to_sleep"
    /\ last_call.result = "Ok"
    /\ Len(last_call.calls) = 6
    /\ Cardinality(DOMAIN command_by_id) = 2
    /\ ~host_refused

\* C21: a wake_up that got past its drain returns Ok, whether or not the
\* host accepted the post-command hook, unless the host refused another
\* registration (the last call of a wake_up that did not return Ok is the
\* refused one, and it is not the post-command hook); after a wake_up that
\* returned Ok the session is Awake, the host holds the command hook, the
\* toggle hook, the audio hook and, for every id of the registry, the
\* accelerator entry whose handle the Awake state records.
C21_PostCommandHookMayFail ==
    PastDrain =>
        IF last_call.result = "Ok"
        THEN /\ session_status.kind = "Awake"
             /\ host_audio_hook
             /\ {"hook_command", "toggle_action"} \subseteq host_hooks
             /\ DOMAIN session_status.gaccel_registers = DOMAIN command_by_id
             /\ \A c \in DOMAIN command_by_id :
                   /\ session_status.gaccel_registers[c] \in DOMAIN host_gaccels
                   /\ host_gaccels[session_status.gaccel_registers[c]] = c
        ELSE /\ last_call.calls # <<>>
             /\ last_call.calls[Len(last_call.calls)].call \in
                   {"add_hook_command", "add_toggle_action", "add_gaccel",
                    "audio_reg_hardware_hook_add"}

\* A wake_up has returned Ok for a registry of two actions although the host
\* refused the post-command hook.
C21_Witness ==
    /\ PastDrain
    /\ last_call.result = "Ok"
    /\ "hook_post_command_2" \notin host_hooks
    /\ Cardinality(DOMAIN session_status.gaccel_registers) = 2

\* Number of enter calls minus number of leave calls in the first n calls.
Depth(trace, n) ==
    Cardinality({i \in 1..n : trace[i].call = "enter"})
        - Cardinality({i \in 1..n : trace[i].call = "leave"})

ProperlyNested(trace) == \A n \in 0..Len(trace) : Depth(trace, n) >= 0

\* C23 as stated: in a properly nested sequence of enter and leave calls the
\* host block is open as long as the outermost pair is, that is, while there
\* are more enter calls than leave calls.
C23_EndAtOutermostLeave ==
    ProperlyNested(undo_trace) =>
        (undo_block_is_active <=> Depth(undo_trace, Len(undo_trace)) > 0)

\* The enter calls that begin a host block: the first call, and every enter
\* that follows a leave.
BeginPositions(trace) ==
    {i \in DOMAIN trace :
        trace[i].call = "enter" /\ (i = 1 \/ trace[i - 1].call = "leave")}

\* The leave calls that end a host block: every leave that follows an enter.
EndPositions(trace) ==
    {i \in DOMAIN trace :
        trace[i].call = "leave" /\ i > 1 /\ trace[i - 1].call = "enter"}

\* C23, amended: the host block begins at the first enter call and ends at
\* the first leave call after it, whatever the number of enter calls in
\* between; the host block is open exactly when an enter call was made after
\* the last leave call.
C23_EndAtFirstLeave ==
    /\ undo_block_is_active <=>
          \E i \in DOMAIN undo_trace :
              /\ undo_trace[i].call = "enter"
              /\ \A j \in DOMAIN undo_trace : j > i => undo_trace[j].call = "enter"
    /\ Len(host_undo) =
          Cardinality(BeginPositions(undo_trace)) + Cardinality(EndPositions(undo_trace))
    /\ \A k \in DOMAIN host_undo :
          LET i == CHOOSE i \in BeginPositions(undo_trace) \cup EndPositions(undo_trace) :
                      Cardinality({j \in BeginPositions(undo_trace)
                                          \cup EndPositions(undo_trace) : j <= i}) = k
          IN  /\ host_undo[k].id = undo_trace[i].id
              /\ host_undo[k].call =
                    IF undo_trace[i].call = "enter" THEN "undo_begin_block_2"
                    ELSE "undo_end_block_2"

\* enter, enter, leave has been called and the host block has been ended by
\* the inner leave.
C23_Witness ==
    /\ Kinds(undo_trace) = <<"enter", "enter", "leave">>
    /\ Kinds(host_undo) = <<"undo_begin_block_2", "undo_end_block_2">>
    /\ ~undo_block_is_active

\* C24: the host is asked to remove an accelerator handle only while it
\* holds the entry of that handle; no operation asks it to remove a handle
\* that was removed before.
C24_HandleRemovedOnce ==
    [][ \A i \in DOMAIN last_call'.calls :
            last_call'.calls[i].call = "remove_gaccel" =>
                last_call'.calls[i].id \in DOMAIN host_gaccels
      ]_vars

\* C25: a wake_up that returns an error after the host refused a
\* registration leaves the session Sleeping with its adapter, as it was
\* before the call, and no wake_up ever fails with the "invalid state" error.
C25_FailedWakeUpCanBeRetried ==
    /\ (PastDrain /\ IsError(last_call.result)) => session_status = Sleeping(TRUE)
    /\ last_call.result # "Previous wake-up left session in invalid state"

IsInjective(seq) == \A i, j \in DOMAIN seq : seq[i] = seq[j] => i = j

Fates == Range(queue) \cup Range(executed) \cup discarded

\* C26: no task is in the queue twice or executed twice; no task is at once
\* queued and executed, queued and discarded, or executed and discarded; the
\* queue never holds more tasks than the capacity of the channel; a task whose
\* enqueue call returns Ok is in the queue, and a task that is queued,
\* executed or discarded never ceases to be one of the three.
C26_OneFatePerTask ==
    /\ [](/\ IsInjective(queue)
          /\ IsInjective(executed)
          /\ Range(queue) \cap Range(executed) = {}
          /\ Range(queue) \cap discarded = {}
          /\ Range(executed) \cap discarded = {}
          /\ Len(queue) <= ChannelCapacity)
    /\ [][ /\ (last_call'.op = "do_later" /\ last_call'.result = "Ok") =>
                  /\ last_call'.id \in Range(queue')
                  /\ last_call'.id \notin Fates
           /\ Fates \subseteq Fates'
         ]_vars

\* The queue is full while other tasks have been executed and others
\* discarded.
C26_Witness ==
    /\ Len(queue) = ChannelCapacity
    /\ executed # <<>>
    /\ discarded # {}

\* C27: a task that is in the queue of an Awake session is eventually
\* executed, unless the session leaves Awake; if the session stays Awake for
\* ever, the queue is eventually empty for ever (producers enqueue a bounded
\* number of tasks).
C27_EveryTaskRuns ==
    /\ \A task \in Tasks :
          (task \in Range(queue) /\ session_status.kind = "Awake")
              ~> (task \in Range(executed) \/ session_status.kind # "Awake")
    /\ <>[](session_status.kind = "Awake") => <>[](queue = <<>>)

\* Every task the producers created has been executed, the session is Awake
\* and the queue is empty.
C27_Witness ==
    /\ session_status.kind = "Awake"
    /\ Len(executed) = MaxTasks
    /\ queue = <<>>

\* The ids an operation registered during its dispatch and did not unregister
\* afterwards, and the ids it unregistered and did not register afterwards;
\* calls[1] is the invocation of the operation itself.
RegisteredByOperation(calls) ==
    {c \in CommandIds :
        \E i \in 2..Len(calls) :
            /\ calls[i] = Call("register_action", c)
            /\ \A j \in (i + 1)..Len(calls) : calls[j] # Call("unregister", c)}

UnregisteredByOperation(calls) ==
    {c \in CommandIds :
        \E i \in 2..Len(calls) :
            /\ calls[i] = Call("unregister", c)
            /\ \A j \in (i + 1)..Len(calls) : calls[j] # Call("register_action", c)}

C28_NestedUnregistrationCompletes ==
    [][/\ ( InOperation(MainThread) /\ last_call'.op = "unregister" )
          => /\ ~panicked'
             /\ last_call'.result = "Ok"
             /\ last_call'.id \notin DOMAIN command_by_id'
             /\ thread_pc'[MainThread] = "dispatch"
       /\ ( InOperation(MainThread) /\ last_call'.op = "hook_command" )
          => /\ last_call'.result = "handled"
             /\ last_call'.id = frame.command
             /\ UnregisteredByOperation(last_call'.calls) \cap DOMAIN command_by_id' = {}
       /\ ( /\ ~InOperation(MainThread)
            /\ last_call'.op = "hook_command"
            /\ last_call'.id \notin DOMAIN command_by_id )
          => /\ last_call'.result = "not handled"
             /\ last_call'.calls = <<>>
             /\ thread_pc'[MainThread] = "idle"
      ]_vars

\* A dispatch has returned "handled" with the session Awake after its
\* operation unregistered its own action, which is no longer in the registry
\* nor known to the host.
C28_Witness ==
    /\ last_call.op = "hook_command"
    /\ last_call.result = "handled"
    /\ session_status.kind = "Awake"
    /\ ~panicked
    /\ Len(last_call.calls) = 2
    /\ last_call.calls[2] = Call("unregister", last_call.id)
    /\ last_call.id \notin DOMAIN command_by_id
    /\ \A h \in DOMAIN host_gaccels : host_gaccels[h] # last_call.id

====
